---------------------------- MODULE Spec2Model ----------------------------
(***************************************************************************)
(* A model of klang's code generation layer (lib/AST/ASTNodes.cpp) and of  *)
(* the global tables the driver sets up (tools/driver/Driver.cpp).         *)
(*                                                                         *)
(* Codegen of one top-level form is one action: the recursive tree walk of *)
(* the source is the recursive operator Codegen, which threads the state   *)
(* the walk reads and writes (NamedValues, the function under              *)
(* construction, the insertion point, stderr) through a record.  Doubles   *)
(* are modelled by integers.  The IR builder's constant folding is not     *)
(* modelled: it does not change the value an instruction computes.         *)
(***************************************************************************)
EXTENDS Integers, Sequences, FiniteSets, TLC

VARIABLES
  TheModule,        \* llvm::Module: function name -> function
  BinopPrecedence,  \* Token::BinopPrecedence: operator symbol -> precedence
  NamedValues,      \* klang::NamedValues: variable name -> alloca (0 is null)
  fatal,            \* "no", or how the process died
  nforms,           \* number of top-level forms handled so far
  last,             \* what the last top-level form did (history)
  jit,              \* the execution engine's call stack
  out               \* the characters putchard has written

vars == <<TheModule, BinopPrecedence, NamedValues, fatal, nforms, last, jit, out>>

(***************************************************************************)
(* Bounds of the model.                                                    *)
(***************************************************************************)
MaxForms == 3
MaxScopeForms == 1
MaxPairs == 2
MaxLoopEnd == 4
MaxSteps == 80

(***************************************************************************)
(* std::map with operator[], which inserts a value-initialised (null)      *)
(* entry when the key is absent.                                           *)
(***************************************************************************)
EmptyMap == [x \in {} |-> 0]

MapGet(m, k) == IF k \in DOMAIN m THEN m[k] ELSE 0

MapTouch(m, k) == IF k \in DOMAIN m THEN m ELSE [x \in DOMAIN m \cup {k} |-> IF x = k THEN 0 ELSE m[x]]

MapSet(m, k, v) == [x \in DOMAIN m \cup {k} |-> IF x = k THEN v ELSE m[x]]

MapErase(m, k) == [x \in DOMAIN m \ {k} |-> m[x]]

(***************************************************************************)
(* The AST node set.                                                       *)
(***************************************************************************)
NoExpr == [kind |-> "none"]

Num(v) == [kind |-> "num", val |-> v]

Var(n) == [kind |-> "var", name |-> n]

Unary(op, e) == [kind |-> "unary", op |-> op, operand |-> e]

Binary(op, l, r) == [kind |-> "binary", op |-> op, lhs |-> l, rhs |-> r]

Call(callee, args) == [kind |-> "call", callee |-> callee, args |-> args]

IfExpr(c, t, e) == [kind |-> "if", cond |-> c, then |-> t, else |-> e]

ForExpr(v, s, e, st, b) == [kind |-> "for", var |-> v, start |-> s, end |-> e, step |-> st, body |-> b]

VarExpr(pairs, b) == [kind |-> "varin", names |-> pairs, body |-> b]

Pair(n, i) == [name |-> n, init |-> i]

Proto(n, args) == [name |-> n, args |-> args, isBinaryOp |-> FALSE, op |-> "", prec |-> 0]

BinaryProto(op, args, prec) == [name |-> "binary" \o op, args |-> args, isBinaryOp |-> TRUE, op |-> op, prec |-> prec]

Function(p, b) == [proto |-> p, body |-> b]

(***************************************************************************)
(* IR values and instructions.                                             *)
(***************************************************************************)
NullV == [k |-> "null", n |-> 0]

ConstV(n) == [k |-> "const", n |-> n]

RegV(id) == [k |-> "reg", n |-> id]

ArgV(i) == [k |-> "arg", n |-> i]

Ins(op, id, ops, bbs, callee) == [op |-> op, id |-> id, ops |-> ops, bbs |-> bbs, callee |-> callee]

EntryBB == 1

(***************************************************************************)
(* The error helpers of lib/Driver/Utils.cpp: print and return null.       *)
(***************************************************************************)
ErrorV(cg, str) == [cg EXCEPT !.errs = Append(@, str), !.val = NullV]

(***************************************************************************)
(* The IR builder: append at the insertion point.                          *)
(***************************************************************************)
Emit(cg, ins) == [cg EXCEPT !.blocks[cg.cur] = Append(@, ins)]

EmitVal(cg, op, ops, callee) ==
  [Emit(cg, Ins(op, cg.next, ops, <<>>, callee)) EXCEPT !.next = cg.next + 1, !.val = RegV(cg.next)]

CreateBlock(cg, attached) ==
  [cg EXCEPT !.blocks = Append(@, <<>>),
             !.layout = IF attached THEN Append(@, Len(cg.blocks) + 1) ELSE @]

PushBack(cg, bb) == [cg EXCEPT !.layout = Append(@, bb)]

SetInsertPoint(cg, bb) == [cg EXCEPT !.cur = bb]

CreateEntryBlockAlloca(cg, name) ==
  [cg EXCEPT !.blocks[EntryBB] = <<Ins("alloca", cg.next, <<>>, <<>>, name)>> \o @,
             !.next = cg.next + 1,
             !.val = RegV(cg.next)]

GetFunction(M, name) == name \in DOMAIN M

NumInstrs(blocks) ==
  LET RECURSIVE Sum(_)
      Sum(i) == IF i > Len(blocks) THEN 0 ELSE Len(blocks[i]) + Sum(i + 1)
  IN Sum(1)

(***************************************************************************)
(* Expression lowering.  Codegen(e, M, cg) lowers e against the module M   *)
(* (only read while an expression is lowered) and returns the new walk     *)
(* state; its val field is the llvm::Value* returned, NullV for 0.         *)
(* Once the process has died nothing more happens.                         *)
(* The fields lowered, scopes, inits, refs and bound are history: what was *)
(* lowered, the scope around each construct and initializer, every         *)
(* variable lookup with its outcome, and the names the function's          *)
(* parameters and the constructs enclosing the current node have bound.    *)
(***************************************************************************)
\* The one value a statement computes: binds it once for what follows.
Only(S) == CHOOSE x \in S : TRUE

RECURSIVE Codegen(_, _, _)

NumberExprAST_Codegen(e, M, cg) == [cg EXCEPT !.val = ConstV(e.val)]

VariableExprAST_Codegen(e, M, cg) ==
  LET V == MapGet(cg.nv, e.name)
      cg1 == [cg EXCEPT !.nv = MapTouch(cg.nv, e.name),
                        !.refs = Append(@, [name |-> e.name, found |-> V # 0, bound |-> cg.bound])]
  IN IF V = 0 THEN ErrorV(cg1, "Unknown variable name")
     ELSE EmitVal(cg1, "load", <<RegV(V)>>, e.name)

UnaryExprAST_Codegen(e, M, cg) ==
  Only({IF cg1.val = NullV THEN cg1
        ELSE IF ~GetFunction(M, "unary" \o e.op) THEN ErrorV(cg1, "Unknown unary operator")
        ELSE EmitVal(cg1, "call", <<cg1.val>>, "unary" \o e.op) :
          cg1 \in {Codegen(e.operand, M, cg)}})

\* Mutant: a missing operator function is reported like a missing unary one.
BinaryExprAST_UserOp_Reported(e, M, cg, L, R) ==
  IF GetFunction(M, "binary" \o e.op)
  THEN EmitVal(cg, "call", <<L, R>>, "binary" \o e.op)
  ELSE ErrorV(cg, "Unknown binary operator")

\* The user-defined operator call at the end of BinaryExprAST::Codegen:
\* assert(F && ...) and then CreateCall(F, ...).
BinaryExprAST_UserOp(e, M, cg, L, R) ==
  IF GetFunction(M, "binary" \o e.op)
  THEN EmitVal(cg, "call", <<L, R>>, "binary" \o e.op)
  ELSE [cg EXCEPT !.val = NullV,
                  !.fatal = IF cg.build = "assert" THEN "assert: binary operator not found!"
                            ELSE "undefined: call through null callee"]

\* Mutant: the right operand is lowered before the left one is looked at.
BinaryExprAST_Assign_RhsFirst(e, M, cg) ==
  Only({IF cg1.val = NullV THEN cg1
        ELSE IF e.lhs.kind # "var" THEN ErrorV(cg1, "destination of '=' must be a variable")
        ELSE IF MapGet(cg1.nv, e.lhs.name) = 0 THEN ErrorV(cg1, "Unknown variable name")
        ELSE [Emit(cg1, Ins("store", 0, <<cg1.val, RegV(MapGet(cg1.nv, e.lhs.name))>>, <<>>, ""))
                EXCEPT !.val = cg1.val] :
          cg1 \in {Codegen(e.rhs, M, cg)}})

\* Mutant: the assignment yields its value but emits no store.
BinaryExprAST_Assign_NoStore(e, M, cg) ==
  IF e.lhs.kind # "var" THEN ErrorV(cg, "destination of '=' must be a variable")
  ELSE Only({IF cg1.val = NullV THEN cg1
             ELSE IF MapGet(cg1.nv, e.lhs.name) = 0 THEN ErrorV(cg1, "Unknown variable name")
             ELSE cg1 :
               cg1 \in {Codegen(e.rhs, M, cg)}})

BinaryExprAST_Assign(e, M, cg) ==
  IF e.lhs.kind # "var" THEN ErrorV(cg, "destination of '=' must be a variable")
  ELSE Only({LET Val == cg1.val
                 Variable == MapGet(cg1.nv, e.lhs.name)
                 cg2 == [cg1 EXCEPT !.nv = MapTouch(cg1.nv, e.lhs.name),
                                    !.refs = Append(@, [name |-> e.lhs.name, found |-> Variable # 0,
                                                        bound |-> cg1.bound])]
             IN IF Val = NullV THEN cg1
                ELSE IF Variable = 0 THEN ErrorV(cg2, "Unknown variable name")
                ELSE [Emit(cg2, Ins("store", 0, <<Val, RegV(Variable)>>, <<>>, "")) EXCEPT !.val = Val] :
               cg1 \in {Codegen(e.rhs, M, cg)}})

\* L = LHS->Codegen(); R = RHS->Codegen(): [cg, L, R].
BinaryExprAST_Operands(e, M, cg) ==
  Only({Only({[cg |-> cgR, L |-> cgL.val, R |-> cgR.val] : cgR \in {Codegen(e.rhs, M, cgL)}}) :
          cgL \in {Codegen(e.lhs, M, cg)}})

BinaryExprAST_Codegen(e, M, cg) ==
  IF e.op = "=" THEN BinaryExprAST_Assign(e, M, cg)
  ELSE Only({LET L == o.L
                 R == o.R
                 c == o.cg
             IN IF L = NullV \/ R = NullV THEN [c EXCEPT !.val = NullV]
                ELSE CASE e.op = "+" -> EmitVal(c, "fadd", <<L, R>>, "addtmp")
                       [] e.op = "-" -> EmitVal(c, "fsub", <<L, R>>, "subtmp")
                       [] e.op = "*" -> EmitVal(c, "fmul", <<L, R>>, "multmp")
                       [] e.op = "<" -> LET c1 == EmitVal(c, "fcmp_ult", <<L, R>>, "cmptmp")
                                        IN EmitVal(c1, "uitofp", <<c1.val>>, "booltmp")
                       [] OTHER -> BinaryExprAST_UserOp(e, M, c, L, R) :
               o \in {BinaryExprAST_Operands(e, M, cg)}})

RECURSIVE CallExprAST_Args(_, _, _, _, _)
\* The argument loop: [cg, ArgsV, ok].
CallExprAST_Args(e, i, M, cg, ArgsV) ==
  IF i > Len(e.args) THEN [cg |-> cg, ArgsV |-> ArgsV, ok |-> TRUE]
  ELSE Only({IF cg1.val = NullV THEN [cg |-> cg1, ArgsV |-> ArgsV, ok |-> FALSE]
             ELSE CallExprAST_Args(e, i + 1, M, cg1, Append(ArgsV, cg1.val)) :
               cg1 \in {Codegen(e.args[i], M, cg)}})

\* Mutant: the argument count is not compared.
CallExprAST_ArityOk_Unchecked(M, e) == TRUE

CallExprAST_ArityOk(M, e) == M[e.callee].nargs = Len(e.args)

CallExprAST_Codegen(e, M, cg) ==
  IF ~GetFunction(M, e.callee) THEN ErrorV(cg, "Unknown function referenced")
  ELSE IF ~CallExprAST_ArityOk(M, e) THEN ErrorV(cg, "Incorrect # arguments passed")
  ELSE Only({IF ~r.ok THEN [r.cg EXCEPT !.val = NullV]
             ELSE EmitVal(r.cg, "call", r.ArgsV, e.callee) :
               r \in {CallExprAST_Args(e, 1, M, cg, <<>>)}})

\* Mutant: the phi keeps the block the branch was entered in.
IfExprAST_UpdateBB_Stale(cg, BB) == BB

\* "Codegen of 'Then' can change the current block, update ThenBB for the
\* PHI": ThenBB = Builder.GetInsertBlock(), and the same for ElseBB.
IfExprAST_UpdateBB(cg, BB) == cg.cur

\* The else branch and the merge block, once the then branch is lowered.
IfExprAST_Else(e, M, cgT, ThenBB0, ElseBB0, MergeBB) ==
  LET ThenV == cgT.val
      c4 == Emit(cgT, Ins("br", 0, <<>>, <<MergeBB>>, ""))
      ThenBB == IfExprAST_UpdateBB(c4, ThenBB0)
  IN Only({LET ElseV == cgE.val
               c5 == Emit(cgE, Ins("br", 0, <<>>, <<MergeBB>>, ""))
               ElseBB == IfExprAST_UpdateBB(c5, ElseBB0)
               c6 == SetInsertPoint(PushBack(c5, MergeBB), MergeBB)
           IN IF ElseV = NullV THEN cgE
              ELSE [Emit(c6, Ins("phi", c6.next, <<ThenV, ElseV>>, <<ThenBB, ElseBB>>, "iftmp"))
                      EXCEPT !.next = c6.next + 1, !.val = RegV(c6.next)] :
             cgE \in {Codegen(e.else, M, SetInsertPoint(PushBack(c4, ElseBB0), ElseBB0))}})

IfExprAST_Codegen(e, M, cg) ==
  Only({IF cgC.val = NullV THEN cgC
        ELSE
          LET c1 == EmitVal(cgC, "fcmp_one", <<cgC.val, ConstV(0)>>, "ifcond")
              CondV == c1.val
              ThenBB0 == Len(c1.blocks) + 1
              ElseBB0 == ThenBB0 + 1
              MergeBB == ThenBB0 + 2
              c2 == CreateBlock(CreateBlock(CreateBlock(c1, TRUE), FALSE), FALSE)
              c3 == Emit(c2, Ins("condbr", 0, <<CondV>>, <<ThenBB0, ElseBB0>>, ""))
          IN Only({IF cgT.val = NullV THEN cgT
                   ELSE IfExprAST_Else(e, M, cgT, ThenBB0, ElseBB0, MergeBB) :
                     cgT \in {Codegen(e.then, M, SetInsertPoint(c3, ThenBB0))}}) :
          cgC \in {Codegen(e.cond, M, cg)}})

\* "Restore the unshadowed variable" at the end of ForExprAST::Codegen.
ForExprAST_Restore(nv, VarName, OldVal) ==
  IF OldVal # 0 THEN MapSet(nv, VarName, OldVal) ELSE MapErase(nv, VarName)

\* "If not specified, use 1.0."
ForExprAST_Step(e, M, cgB) ==
  IF e.step # NoExpr THEN Codegen(e.step, M, cgB) ELSE [cgB EXCEPT !.val = ConstV(1)]

\* Mutant: the end condition is lowered after the increment has been stored,
\* so it tests the next value of the loop variable.
ForExprAST_Latch_CondAfterIncrement(e, M, cgB, Alloca, LoopBB) ==
  Only({IF cgS.val = NullV THEN cgS
        ELSE
          LET StepVal == cgS.val
              c1 == EmitVal(cgS, "load", <<Alloca>>, e.var)
              c2 == EmitVal(c1, "fadd", <<c1.val, StepVal>>, "nextvar")
              c3 == Emit(c2, Ins("store", 0, <<c2.val, Alloca>>, <<>>, ""))
          IN Only({IF cgE.val = NullV THEN cgE
                   ELSE
                     LET c4 == EmitVal(cgE, "fcmp_one", <<cgE.val, ConstV(0)>>, "loopcond")
                         AfterBB == Len(c4.blocks) + 1
                         c5 == CreateBlock(c4, TRUE)
                         c6 == Emit(c5, Ins("condbr", 0, <<c4.val>>, <<LoopBB, AfterBB>>, ""))
                     IN SetInsertPoint(c6, AfterBB) :
                     cgE \in {Codegen(e.end, M, c3)}}) :
          cgS \in {ForExprAST_Step(e, M, cgB)}})

\* Mutant: the step is added to the start value, not to the reloaded variable.
ForExprAST_Latch_AddsToStart(e, M, cgB, Alloca, LoopBB) ==
  Only({IF cgS.val = NullV THEN cgS
        ELSE
          Only({IF cgE.val = NullV THEN cgE
                ELSE
                  LET c2 == EmitVal(cgE, "fadd", <<ConstV(e.start.val), cgS.val>>, "nextvar")
                      c3 == Emit(c2, Ins("store", 0, <<c2.val, Alloca>>, <<>>, ""))
                      c4 == EmitVal(c3, "fcmp_one", <<cgE.val, ConstV(0)>>, "loopcond")
                      AfterBB == Len(c4.blocks) + 1
                      c5 == CreateBlock(c4, TRUE)
                      c6 == Emit(c5, Ins("condbr", 0, <<c4.val>>, <<LoopBB, AfterBB>>, ""))
                  IN SetInsertPoint(c6, AfterBB) :
                  cgE \in {Codegen(e.end, M, cgS)}}) :
          cgS \in {ForExprAST_Step(e, M, cgB)}})

\* The tail of the loop, after the body: step, end condition, increment, branch.
ForExprAST_Latch(e, M, cgB, Alloca, LoopBB) ==
  Only({IF cgS.val = NullV THEN cgS
        ELSE
          Only({IF cgE.val = NullV THEN cgE
                ELSE
                  LET StepVal == cgS.val
                      EndCond0 == cgE.val
                      c1 == EmitVal(cgE, "load", <<Alloca>>, e.var)
                      c2 == EmitVal(c1, "fadd", <<c1.val, StepVal>>, "nextvar")
                      c3 == Emit(c2, Ins("store", 0, <<c2.val, Alloca>>, <<>>, ""))
                      c4 == EmitVal(c3, "fcmp_one", <<EndCond0, ConstV(0)>>, "loopcond")
                      AfterBB == Len(c4.blocks) + 1
                      c5 == CreateBlock(c4, TRUE)
                      c6 == Emit(c5, Ins("condbr", 0, <<c4.val>>, <<LoopBB, AfterBB>>, ""))
                  IN SetInsertPoint(c6, AfterBB) :
                  cgE \in {Codegen(e.end, M, cgS)}}) :
          cgS \in {ForExprAST_Step(e, M, cgB)}})

\* The loop block: bind the variable, lower the body, then the tail, then
\* restore.  cg is the walk state on entry, cgS the one after the start value.
ForExprAST_Loop(e, M, cg, cgS, Alloca) ==
  LET c1 == Emit(cgS, Ins("store", 0, <<cgS.val, Alloca>>, <<>>, ""))
      LoopBB == Len(c1.blocks) + 1
      c2 == CreateBlock(c1, TRUE)
      c3 == SetInsertPoint(Emit(c2, Ins("br", 0, <<>>, <<LoopBB>>, "")), LoopBB)
      OldVal == MapGet(c3.nv, e.var)
  IN Only({Only({IF cgB.val = NullV THEN cgB
                 ELSE
                   Only({IF cgL.val = NullV THEN cgL
                         ELSE [cgL EXCEPT !.nv = ForExprAST_Restore(cgL.nv, e.var, OldVal),
                                          !.scopes = Append(@, [kind |-> "for", names |-> {e.var},
                                                                decl |-> <<e.var>>, news |-> <<Alloca.n>>,
                                                                pre |-> cg.nv, body |-> c4.nv,
                                                                post |-> ForExprAST_Restore(cgL.nv, e.var, OldVal)]),
                                          !.bound = cg.bound,
                                          !.val = ConstV(0)] :
                           cgL \in {ForExprAST_Latch(e, M, cgB, Alloca, LoopBB)}}) :
                   cgB \in {Codegen(e.body, M, c4)}}) :
             c4 \in {[c3 EXCEPT !.nv = MapSet(c3.nv, e.var, Alloca.n), !.bound = @ \cup {e.var}]}})

ForExprAST_Codegen(e, M, cg) ==
  Only({Only({IF cgS.val = NullV THEN cgS ELSE ForExprAST_Loop(e, M, cg, cgS, c0.val) :
                cgS \in {Codegen(e.start, M, c0)}}) :
          c0 \in {CreateEntryBlockAlloca(cg, e.var)}})

\* Mutant: the new alloca is made and initialised but never bound.
VarExprAST_BindOne_Unbound(cg, VarName, InitVal, OldBindings) ==
  LET c1 == CreateEntryBlockAlloca(cg, VarName)
      Alloca == c1.val
      c2 == Emit(c1, Ins("store", 0, <<InitVal, Alloca>>, <<>>, ""))
  IN [cg |-> c2,
      OldBindings |-> Append(OldBindings, MapGet(c2.nv, VarName)),
      Alloca |-> Alloca.n]

\* One pass of the first loop of VarExprAST::Codegen, after the
\* initializer: alloca, store, remember the old binding, bind.
VarExprAST_BindOne(cg, VarName, InitVal, OldBindings) ==
  LET c1 == CreateEntryBlockAlloca(cg, VarName)
      Alloca == c1.val
      c2 == Emit(c1, Ins("store", 0, <<InitVal, Alloca>>, <<>>, ""))
  IN [cg |-> [c2 EXCEPT !.nv = MapSet(c2.nv, VarName, Alloca.n), !.bound = @ \cup {VarName}],
      OldBindings |-> Append(OldBindings, MapGet(c2.nv, VarName)),
      Alloca |-> Alloca.n]

VarNamesOf(e) == [j \in 1..Len(e.names) |-> e.names[j].name]

\* "If not specified, use 0.0."  The scope the initializer is lowered in is
\* appended to cg.inits (history).
VarExprAST_Init(e, i, M, cg, h) ==
  LET Init == e.names[i].init
      seen == [cg EXCEPT !.inits = Append(@, [i |-> i, names |-> VarNamesOf(e), init |-> Init,
                                              pre |-> h.pre, at |-> cg.nv, news |-> h.news])]
  IN IF Init # NoExpr THEN Codegen(Init, M, seen) ELSE [seen EXCEPT !.val = ConstV(0)]

RECURSIVE VarExprAST_Register(_, _, _, _, _, _)
\* "Register all variables and emit their initializer": [cg, OldBindings, ok].
\* h is history: the scope before the block and the allocas made so far.
VarExprAST_Register(e, i, M, cg, OldBindings, h) ==
  IF i > Len(e.names) THEN [cg |-> cg, OldBindings |-> OldBindings, ok |-> TRUE, news |-> h.news]
  ELSE Only({IF cgI.val = NullV
             THEN [cg |-> cgI, OldBindings |-> OldBindings, ok |-> FALSE, news |-> h.news]
             ELSE Only({VarExprAST_Register(e, i + 1, M, b.cg, b.OldBindings,
                                            [h EXCEPT !.news = Append(@, b.Alloca)]) :
                          b \in {VarExprAST_BindOne(cgI, e.names[i].name, cgI.val, OldBindings)}}) :
               cgI \in {VarExprAST_Init(e, i, M, cg, h)}})

RECURSIVE VarExprAST_Pop(_, _, _, _)
\* "Pop all our variables from scope": NamedValues[VarNames[i].first] = OldBindings[i].
VarExprAST_Pop(names, i, nv, OldBindings) ==
  IF i > Len(names) THEN nv
  ELSE VarExprAST_Pop(names, i + 1, MapSet(nv, names[i].name, OldBindings[i]), OldBindings)

VarExprAST_Codegen(e, M, cg) ==
  Only({IF ~r.ok THEN [r.cg EXCEPT !.val = NullV]
        ELSE
          Only({IF cgB.val = NullV THEN cgB
                ELSE Only({[cgB EXCEPT !.nv = post,
                                       !.scopes = Append(@, [kind |-> "varin",
                                                             names |-> {e.names[j].name : j \in 1..Len(e.names)},
                                                             decl |-> VarNamesOf(e), news |-> r.news,
                                                             pre |-> cg.nv, body |-> r.cg.nv,
                                                             post |-> post]),
                                       !.bound = cg.bound,
                                       !.val = cgB.val] :
                             post \in {VarExprAST_Pop(e.names, 1, cgB.nv, r.OldBindings)}}) :
                  cgB \in {Codegen(e.body, M, r.cg)}}) :
          r \in {VarExprAST_Register(e, 1, M, cg, <<>>, [pre |-> cg.nv, news |-> <<>>])}})

\* The virtual call: which Codegen runs depends on the node.
ExprAST_Codegen(e, M, cg) ==
  CASE e.kind = "num" -> NumberExprAST_Codegen(e, M, cg)
    [] e.kind = "var" -> VariableExprAST_Codegen(e, M, cg)
    [] e.kind = "unary" -> UnaryExprAST_Codegen(e, M, cg)
    [] e.kind = "binary" -> BinaryExprAST_Codegen(e, M, cg)
    [] e.kind = "call" -> CallExprAST_Codegen(e, M, cg)
    [] e.kind = "if" -> IfExprAST_Codegen(e, M, cg)
    [] e.kind = "for" -> ForExprAST_Codegen(e, M, cg)
    [] e.kind = "varin" -> VarExprAST_Codegen(e, M, cg)

Codegen(e, M, cg0) ==
  Only({IF c.fatal # "no" THEN [c EXCEPT !.val = NullV]
        ELSE Only({ExprAST_Codegen(e, M, cg) : cg \in {[c EXCEPT !.lowered = Append(@, e)]}}) :
          c \in {cg0}})

(***************************************************************************)
(* Prototypes and functions.  A function of the module is                  *)
(* [nargs, blocks, layout]; one that was only declared has no blocks       *)
(* (llvm::Function::empty()).  A function created with the empty name is   *)
(* anonymous: it never conflicts with an existing one.                     *)
(***************************************************************************)
NewFunction(n) == [nargs |-> n, blocks |-> <<>>, layout |-> <<>>]

FunctionEmpty(F) == Len(F.blocks) = 0

\* Mutant: a function is never taken to have a body.
PrototypeAST_HasBody_Never(M, P) == FALSE

\* "If F already has a body, reject this."
PrototypeAST_HasBody(M, P) == ~FunctionEmpty(M[P.name])

\* Mutant: the number of parameters is never compared.
PrototypeAST_ArgsDiffer_Never(M, P) == FALSE

\* "If F took a different number of args, reject."
PrototypeAST_ArgsDiffer(M, P) == M[P.name].nargs # Len(P.args)

\* [M, ok, errs]: the module afterwards, whether a function was returned,
\* and what was printed.
PrototypeAST_Codegen(P, M) ==
  IF P.name # "" /\ GetFunction(M, P.name)
  THEN IF PrototypeAST_HasBody(M, P)
       THEN [M |-> M, ok |-> FALSE, errs |-> <<"redefinition of function">>]
       ELSE IF PrototypeAST_ArgsDiffer(M, P)
       THEN [M |-> M, ok |-> FALSE, errs |-> <<"redefinition of function with different # args">>]
       ELSE [M |-> M, ok |-> TRUE, errs |-> <<>>]
  ELSE [M |-> MapSet(M, P.name, NewFunction(Len(P.args))), ok |-> TRUE, errs |-> <<>>]

RECURSIVE CreateArgumentAllocas(_, _, _)
CreateArgumentAllocas(P, Idx, cg) ==
  IF Idx > Len(P.args) THEN cg
  ELSE LET c1 == CreateEntryBlockAlloca(cg, P.args[Idx])
           Alloca == c1.val
           c2 == Emit(c1, Ins("store", 0, <<ArgV(Idx), Alloca>>, <<>>, ""))
       IN CreateArgumentAllocas(P, Idx + 1, [c2 EXCEPT !.nv = MapSet(c2.nv, P.args[Idx], Alloca.n),
                                                       !.bound = @ \cup {P.args[Idx]}])

\* Mutant: an operator is never installed.
FunctionAST_Install_Never(prec, P) == prec

\* "If this is an operator, install it."
FunctionAST_Install(prec, P) ==
  IF P.isBinaryOp THEN MapSet(prec, P.op, P.prec) ELSE prec

\* Mutant: the operator stays installed when its definition fails.
FunctionAST_Retract_Kept(prec, P) == prec

\* The erase of the operator on the error path.
FunctionAST_Retract(prec, P) ==
  IF P.isBinaryOp THEN MapErase(prec, P.op) ELSE prec

\* The functions the instructions of a function call.
Callees(F) ==
  {F.blocks[b][i].callee : <<b, i>> \in {<<b, i>> \in (DOMAIN F.blocks) \X (1..NumInstrs(F.blocks)) :
                                          i \in DOMAIN F.blocks[b] /\ F.blocks[b][i].op = "call"}}

\* Another function of the module still calls the function.
HasUses(M, name) == \E n \in DOMAIN M \ {name} : name \in Callees(M[n])

\* Mutant: the half-built function is left in the module.
FunctionAST_EraseFromParent_Kept(M, P) == M

\* "Error reading body, remove function."
FunctionAST_EraseFromParent(M, P) == MapErase(M, P.name)

\* NamedValues.clear() at the top of FunctionAST::Codegen.
FunctionAST_ClearScope(nv) == EmptyMap

\* The walk state when the body is about to be lowered: the entry block is
\* the insertion point and the arguments are bound.
FunctionAST_Entry(P, nv, bld) ==
  CreateArgumentAllocas(P, 1,
    [nv |-> FunctionAST_ClearScope(nv), blocks |-> <<<<>>>>, layout |-> <<EntryBB>>, cur |-> EntryBB,
     next |-> 1, errs |-> <<>>, lowered |-> <<>>, scopes |-> <<>>, inits |-> <<>>,
     refs |-> <<>>, bound |-> {}, fatal |-> "no", build |-> bld, val |-> NullV])

\* The body of FunctionAST::Codegen after the prototype was accepted: p is
\* what PrototypeAST::Codegen returned, cg0 the walk state at the entry.
\* eraseFromParent destroys a function that finished functions may still
\* call (it was declared before): a build with assertions dies in the
\* destructor, one without goes on with the calls left dangling.
FunctionAST_Body(Fn, p, prec, cg0) ==
  LET P == Fn.proto
      prec1 == FunctionAST_Install(prec, P)
  IN Only({Only({LET RetVal == cgB.val
                     cgR == Emit(cgB, Ins("ret", 0, <<RetVal>>, <<>>, ""))
                 IN IF cgB.fatal # "no"
                    THEN [M |-> [M1 EXCEPT ![P.name].blocks = cgB.blocks, ![P.name].layout = cgB.layout],
                          prec |-> prec1, nv |-> cgB.nv, ok |-> FALSE, errs |-> cgB.errs,
                          fatal |-> cgB.fatal, stage |-> "fatal", cg |-> cgB]
                    ELSE IF RetVal # NullV
                    THEN [M |-> [M1 EXCEPT ![P.name].blocks = cgR.blocks, ![P.name].layout = cgR.layout],
                          prec |-> prec1, nv |-> cgR.nv, ok |-> TRUE, errs |-> cgR.errs,
                          fatal |-> "no", stage |-> "done", cg |-> cgR]
                    ELSE IF cgB.build = "assert" /\ HasUses(M1, P.name)
                    THEN [M |-> [M1 EXCEPT ![P.name].blocks = cgB.blocks, ![P.name].layout = cgB.layout],
                          prec |-> prec1, nv |-> cgB.nv, ok |-> FALSE, errs |-> cgB.errs,
                          fatal |-> "assert: Uses remain when a value is destroyed!",
                          stage |-> "fatal", cg |-> cgB]
                    ELSE [M |-> FunctionAST_EraseFromParent(M1, P),
                          prec |-> FunctionAST_Retract(prec1, P), nv |-> cgB.nv, ok |-> FALSE,
                          errs |-> cgB.errs, fatal |-> "no", stage |-> "body", cg |-> cgB] :
                   cgB \in {Codegen(Fn.body, M1, cg0)}}) :
             M1 \in {[p.M EXCEPT ![P.name].blocks = cg0.blocks, ![P.name].layout = cg0.layout]}})

\* [M, prec, nv, ok, errs, fatal, stage, cg]: the tables afterwards, whether
\* a function was returned, what was printed, where the call ended
\* ("proto": the prototype was rejected, "body": the body failed, "fatal":
\* the process died, "done") and the walk state at the end.
FunctionAST_Codegen(Fn, M, prec, nv, bld) ==
  Only({IF ~p.ok
        THEN [M |-> M, prec |-> prec, nv |-> FunctionAST_ClearScope(nv), ok |-> FALSE, errs |-> p.errs,
              fatal |-> "no", stage |-> "proto",
              cg |-> [cg0 EXCEPT !.nv = EmptyMap, !.blocks = <<>>, !.layout = <<>>]]
        ELSE FunctionAST_Body(Fn, p, prec, cg0) :
          p \in {PrototypeAST_Codegen(Fn.proto, M)},
          cg0 \in {FunctionAST_Entry(Fn.proto, nv, bld)}})

(***************************************************************************)
(* The driver: the standard binary operators and the empty module.         *)
(***************************************************************************)
StandardBinops ==
  [c \in {"=", "<", "+", "-", "*"} |->
     CASE c = "=" -> 2 [] c = "<" -> 10 [] c = "+" -> 20 [] c = "-" -> 20 [] c = "*" -> 40]

\* The two ways the program is built: with assertions, or with NDEBUG.
Builds == {"assert", "ndebug"}

Idle == [stack |-> <<>>, steps |-> 0, result |-> NullV, fn |-> "", args |-> <<>>, out0 |-> 0]

NoForm ==
  [kind |-> "none", form |-> Function(Proto("", <<>>), NoExpr), ok |-> FALSE, errs |-> <<>>,
   stage |-> "none", hist |-> <<>>, lowered |-> <<>>, scopes |-> <<>>, inits |-> <<>>, refs |-> <<>>, blocks |-> <<>>,
   preM |-> EmptyMap, prePrec |-> EmptyMap, preNV |-> EmptyMap]

Init ==
  /\ TheModule = EmptyMap
  /\ BinopPrecedence = StandardBinops
  /\ NamedValues = EmptyMap
  /\ fatal = "no"
  /\ nforms = 0
  /\ last = NoForm
  /\ jit = Idle
  /\ out = <<>>

\* One line of history per top-level form.
Summary(kind, P, ok, stage) ==
  [kind |-> kind, name |-> P.name, nargs |-> Len(P.args), ok |-> ok, stage |-> stage]

Ready == fatal = "no" /\ nforms < MaxForms /\ jit.stack = <<>>

\* A function definition (or a top-level expression, wrapped in an
\* anonymous function) handed to FunctionAST::Codegen.
HandleDefinition(Fn) ==
  /\ Ready
  /\ \E r \in {FunctionAST_Codegen(Fn, TheModule, BinopPrecedence, NamedValues, bld) : bld \in Builds} :
        /\ TheModule' = r.M
        /\ BinopPrecedence' = r.prec
        /\ NamedValues' = r.nv
        /\ fatal' = r.fatal
        /\ last' = [kind |-> "def", form |-> Fn, ok |-> r.ok, errs |-> r.errs,
                    stage |-> r.stage, hist |-> Append(last.hist, Summary("def", Fn.proto, r.ok, r.stage)),
                    lowered |-> r.cg.lowered, scopes |-> r.cg.scopes, inits |-> r.cg.inits,
                    refs |-> r.cg.refs,
                    blocks |-> r.cg.blocks,
                    preM |-> TheModule, prePrec |-> BinopPrecedence, preNV |-> NamedValues]
  /\ nforms' = nforms + 1
  /\ UNCHANGED <<jit, out>>

\* An extern declaration handed to PrototypeAST::Codegen.
HandleExtern(P) ==
  /\ Ready
  /\ \E r \in {PrototypeAST_Codegen(P, TheModule)} :
        /\ TheModule' = r.M
        /\ last' = [kind |-> "extern", form |-> Function(P, NoExpr), ok |-> r.ok, errs |-> r.errs,
                    stage |-> IF r.ok THEN "done" ELSE "proto",
                    hist |-> Append(last.hist, Summary("extern", P, r.ok, IF r.ok THEN "done" ELSE "proto")),
                    lowered |-> <<>>, scopes |-> <<>>, inits |-> <<>>, refs |-> <<>>, blocks |-> <<>>,
                    preM |-> TheModule, prePrec |-> BinopPrecedence, preNV |-> NamedValues]
  /\ nforms' = nforms + 1
  /\ UNCHANGED <<BinopPrecedence, NamedValues, fatal, jit, out>>

(***************************************************************************)
(* Scoping: definitions whose bodies are scoped-binding blocks and counted *)
(* loops, nested two deep, over the names a (a parameter, so bound) and b  *)
(* (unbound).                                                              *)
(***************************************************************************)
ScopeNames == {"a", "b"}

ScopePairs == {Pair(n, i) : n \in ScopeNames, i \in {NoExpr, Var("a")}}

PairSeqs(k) == UNION {[1..n -> ScopePairs] : n \in 1..k}

ScopeLoop(v, b) == ForExpr(v, Num(0), Binary("<", Var(v), Num(1)), NoExpr, b)

ScopeInner == {VarExpr(<<Pair("b", Var("a"))>>, Var("b")), ScopeLoop("a", Var("a"))}

ScopeBodies == {Var("a")} \cup ScopeInner

ScopeExprs ==
  {VarExpr(ps, b) : ps \in PairSeqs(MaxPairs), b \in ScopeBodies}
    \cup {ScopeLoop(v, b) : v \in ScopeNames, b \in ScopeBodies}

ScopeFnNames == <<"f", "g", "h", "k">>

ScopeReady == fatal = "no" /\ nforms < MaxScopeForms /\ nforms < Len(ScopeFnNames)

DefineScoped ==
  /\ ScopeReady
  /\ \E e \in ScopeExprs : HandleDefinition(Function(Proto(ScopeFnNames[nforms + 1], <<"a">>), e))

\* resolve(name): the alloca a variable reference finds, 0 for not-found.
Resolve(nv, n) == MapGet(nv, n)

\* The last pair among the first upto of decl that declares n, 0 if none.
LatestDecl(decl, n, upto) ==
  LET js == {j \in 1..upto : decl[j] = n}
  IN IF js = {} THEN 0 ELSE CHOOSE j \in js : \A k \in js : k <= j

\* C1: after a scoped-binding block or a counted loop has been lowered,
\* every name it bound resolves exactly as it did just before the construct
\* (the same alloca, or not-found), blocks that list a name twice included.
C1_ScopeRestored ==
  \A i \in DOMAIN last.scopes :
    \A n \in last.scopes[i].names :
      Resolve(last.scopes[i].post, n) = Resolve(last.scopes[i].pre, n)

\* C2 as claimed: every initializer of a block is lowered in the scope the
\* block started with: each of the block's names resolves in the i-th
\* initializer as it did before the block.
C2_InitializersSeeOnlyOuterScope ==
  \A k \in DOMAIN last.inits :
    \A j \in DOMAIN last.inits[k].names :
      Resolve(last.inits[k].at, last.inits[k].names[j])
        = Resolve(last.inits[k].pre, last.inits[k].names[j])

\* C2 as amended: the names enter scope pair by pair.  In the i-th
\* initializer a name declared by one of the pairs 1..i-1 resolves to the
\* new storage of the latest such pair, every other name (the i-th pair's
\* own name included) resolves as it did before the block; the body sees
\* the new storage of every name of the block.
C2_InitializersSeeEarlierPairs ==
  /\ \A k \in DOMAIN last.inits :
       LET r == last.inits[k]
       IN \A n \in ScopeNames :
            LET j == LatestDecl(r.names, n, r.i - 1)
            IN IF j = 0 THEN Resolve(r.at, n) = Resolve(r.pre, n)
               ELSE Resolve(r.at, n) = r.news[j] /\ r.news[j] # Resolve(r.pre, n)
  /\ \A k \in DOMAIN last.scopes :
       LET r == last.scopes[k]
       IN r.kind = "varin" =>
            \A n \in r.names : Resolve(r.body, n) = r.news[LatestDecl(r.decl, n, Len(r.decl))]

\* A definition was lowered in which the second initializer of a block
\* refers to the name the first pair declares, bound outside the block too.
C2_Witness ==
  /\ last.ok
  /\ \E k \in DOMAIN last.inits :
       /\ last.inits[k].i = 2
       /\ last.inits[k].init = Var(last.inits[k].names[1])
       /\ Resolve(last.inits[k].pre, last.inits[k].names[1]) # 0

\* C9: a name a block or loop bound that had no binding before the
\* construct is not a key of the Scope Table after it.
C9_AbsentNamesRemoved ==
  \A i \in DOMAIN last.scopes :
    \A n \in last.scopes[i].names :
      Resolve(last.scopes[i].pre, n) = 0 => n \notin DOMAIN last.scopes[i].post

(***************************************************************************)
(* Top-level forms over the module and the operator registry: declarations *)
(* and definitions of f, g and of the binary operators @ and +.            *)
(***************************************************************************)
Externs == {Proto("f", <<>>), Proto("f", <<"a">>)}

PlainBodies == {Num(1), Var("x")}

CallerBodies ==
  PlainBodies \cup {Call("f", <<>>), Call("f", <<Var("x")>>), Binary("@", Num(1), Num(2))}

OperatorBodies == PlainBodies \cup {Binary("@", Var("a"), Var("b"))}

Definitions ==
  {Function(P, b) : P \in Externs, b \in PlainBodies}
    \cup {Function(Proto("g", <<>>), b) : b \in CallerBodies}
    \cup {Function(BinaryProto("@", <<"a", "b">>, 5), b) : b \in OperatorBodies}
    \cup {Function(BinaryProto("+", <<"a", "b">>, 30), b) : b \in PlainBodies}

Define == \E Fn \in Definitions : HandleDefinition(Fn)

Declare == \E P \in Externs : HandleExtern(P)

Next == Define \/ Declare

Spec == Init /\ [][Next]_vars

\* The form before the last one, as the history has it.
HasPrev == Len(last.hist) >= 2

Prev == last.hist[Len(last.hist) - 1]

LastName == last.form.proto.name

\* The last form was a definition whose body was lowered (to success, to
\* failure or to the death of the process).
BodyLowered == last.kind = "def" /\ last.stage # "proto"

\* The module the last definition's body was lowered against: the module
\* before the form, plus the function being defined.
ModuleDuring ==
  IF LastName \in DOMAIN last.preM THEN last.preM
  ELSE MapSet(last.preM, LastName, NewFunction(Len(last.form.proto.args)))

NoCallEmitted(blocks) ==
  \A b \in DOMAIN blocks : \A i \in DOMAIN blocks[b] : blocks[b][i].op # "call"

\* C4: when the definition of a binary operator fails while its body is
\* lowered, the Operator Registry afterwards equals the registry before
\* the form, for every symbol.
C4_RegistryRolledBack ==
  (last.kind = "def" /\ last.form.proto.isBinaryOp /\ last.stage = "body")
    => BinopPrecedence = last.prePrec

\* C6: a definition of a name that already has a body is rejected with
\* "redefinition of function" and leaves the module as it was; a definition
\* of a name that was only declared, with the same number of parameters, is
\* not rejected and, when its body lowers, gives the declared function its
\* body without adding a function.
C6_RedefinitionLaw ==
  (last.kind = "def" /\ LastName \in DOMAIN last.preM) =>
    IF ~FunctionEmpty(last.preM[LastName])
    THEN /\ ~last.ok
         /\ last.errs = <<"redefinition of function">>
         /\ TheModule = last.preM
    ELSE last.preM[LastName].nargs = Len(last.form.proto.args) =>
           /\ last.stage # "proto"
           /\ last.form.body = Num(1) => last.ok
           /\ last.ok => /\ DOMAIN TheModule = DOMAIN last.preM
                         /\ ~FunctionEmpty(TheModule[LastName])

\* f was declared, then defined, then defined again: the third form was
\* rejected as a redefinition.
C6_Witness ==
  /\ Len(last.hist) = 3
  /\ last.hist[1] = Summary("extern", Proto("f", <<>>), TRUE, "done")
  /\ last.hist[2] = Summary("def", Proto("f", <<>>), TRUE, "done")
  /\ last.hist[3] = Summary("def", Proto("f", <<>>), FALSE, "proto")
  /\ last.errs = <<"redefinition of function">>

\* C7: a call to an existing function with the wrong number of arguments
\* fails with "Incorrect # arguments passed" and nothing else: no argument
\* is lowered and no call is emitted, whatever the arguments are.
C7_ArityLaw ==
  ( /\ BodyLowered
    /\ last.form.body.kind = "call"
    /\ last.form.body.callee \in DOMAIN ModuleDuring
    /\ ModuleDuring[last.form.body.callee].nargs # Len(last.form.body.args) )
  => /\ ~last.ok
     /\ last.errs = <<"Incorrect # arguments passed">>
     /\ last.lowered = <<last.form.body>>
     /\ NoCallEmitted(last.blocks)

\* A call with one argument, itself an unbound variable, to a function of
\* no parameters was lowered.
C7_Witness ==
  /\ BodyLowered
  /\ last.form.body = Call("f", <<Var("x")>>)
  /\ "f" \in DOMAIN last.preM
  /\ last.preM["f"].nargs = 0

\* C8: when a definition fails while its body is lowered, no function is
\* left under its name: a call to the name in the next form fails with
\* "Unknown function referenced", and a definition of the name in the next
\* form is not rejected by the prototype.
C8_CallableRolledBack ==
  /\ (last.kind = "def" /\ last.stage = "body") => LastName \notin DOMAIN TheModule
  /\ (HasPrev /\ Prev.kind = "def" /\ Prev.stage = "body") =>
       /\ (last.kind = "def" /\ LastName = Prev.name) => last.stage # "proto"
       /\ ( /\ BodyLowered
            /\ LastName # Prev.name
            /\ last.form.body.kind = "call"
            /\ last.form.body.callee = Prev.name )
          => ~last.ok /\ last.errs = <<"Unknown function referenced">>

\* f was declared, its definition then failed in the body, and the next
\* form, a definition of g, called f.
C8_Witness ==
  /\ Len(last.hist) = 3
  /\ last.hist[1] = Summary("extern", Proto("f", <<>>), TRUE, "done")
  /\ last.hist[2] = Summary("def", Proto("f", <<>>), FALSE, "body")
  /\ last.form = Function(Proto("g", <<>>), Call("f", <<>>))
  /\ ~last.ok

\* The definition of binary @ failed in its body and the next form is a
\* definition, not of @, whose body applies @ to two numbers and is lowered.
AfterFailedOperator ==
  /\ HasPrev
  /\ Prev.kind = "def" /\ Prev.name = "binary@" /\ Prev.stage = "body"
  /\ BodyLowered /\ LastName # "binary@"
  /\ last.form.body = Binary("@", Num(1), Num(2))

VisParams == {<<"a">>, <<"c">>}

VisBodies ==
  {Var("a"), Var("b"),
   VarExpr(<<Pair("b", NoExpr)>>, Var("x")),
   ScopeLoop("b", Var("x")),
   Binary("=", Var("b"), Var("c")),
   Binary("+", VarExpr(<<Pair("b", NoExpr)>>, Var("b")), Var("b")),
   Binary("+", VarExpr(<<Pair("b", NoExpr), Pair("b", NoExpr)>>, Var("b")), Var("b"))}

DefineVis ==
  /\ nforms < Len(ScopeFnNames)
  /\ \E ps \in VisParams, b \in VisBodies :
       HandleDefinition(Function(Proto(ScopeFnNames[nforms + 1], ps), b))

NextVis == DefineVis

SpecVis == Init /\ [][NextVis]_vars

\* C12: while a function's body is lowered a variable lookup succeeds only
\* for a parameter of that function or a name bound by a construct of the
\* same body that encloses the reference.
C12_OnlyEnclosingNamesResolve ==
  \A k \in DOMAIN last.refs : last.refs[k].found => last.refs[k].name \in last.refs[k].bound

\* The names the last form binds anywhere: its parameters and the names of
\* its blocks and loops.
RECURSIVE BoundIn(_)
BoundIn(e) ==
  CASE e.kind = "binary" -> BoundIn(e.lhs) \cup BoundIn(e.rhs)
    [] e.kind = "for" -> {e.var} \cup BoundIn(e.body)
    [] e.kind = "varin" -> {e.names[j].name : j \in DOMAIN e.names} \cup BoundIn(e.body)
    [] OTHER -> {}

\* What does hold: a lookup succeeds only for a name the same form binds
\* somewhere; a name bound only in an earlier form is unbound.
NoCrossFunctionVisibility ==
  \A k \in DOMAIN last.refs :
    last.refs[k].found =>
      last.refs[k].name \in {last.form.proto.args[j] : j \in DOMAIN last.form.proto.args}
                               \cup BoundIn(last.form.body)

\* The last form, a declaration or a definition, names a function that
\* existed before it with another number of parameters.
ArityConflict ==
  /\ last.kind \in {"def", "extern"}
  /\ LastName \in DOMAIN last.preM
  /\ last.preM[LastName].nargs # Len(last.form.proto.args)

\* C17 as claimed: whenever the name exists with another number of
\* parameters the prototype is rejected with "redefinition of function
\* with different # args" and the module is left as it was.
C17_ArityMismatchWhenever ==
  ArityConflict =>
    /\ ~last.ok /\ last.stage = "proto"
    /\ last.errs = <<"redefinition of function with different # args">>
    /\ TheModule = last.preM

\* C17 as amended: the prototype is rejected and the module is left as it
\* was; the error is "redefinition of function with different # args" only
\* when the existing function has no body, and "redefinition of function"
\* when it has one.
C17_ArityMismatchWhenOnlyDeclared ==
  ArityConflict =>
    /\ ~last.ok /\ last.stage = "proto"
    /\ last.errs = IF FunctionEmpty(last.preM[LastName])
                   THEN <<"redefinition of function with different # args">>
                   ELSE <<"redefinition of function">>
    /\ TheModule = last.preM

\* f() has a body and a form with the prototype f(a) was rejected as a
\* redefinition.
C17_Witness ==
  /\ ArityConflict
  /\ ~FunctionEmpty(last.preM[LastName])
  /\ last.form.proto = Proto("f", <<"a">>)
  /\ last.errs = <<"redefinition of function">>

\* C19: every function that a function of the module calls is in the
\* module.
C19_NoDanglingCallee ==
  \A n \in DOMAIN TheModule : \A c \in Callees(TheModule[n]) : GetFunction(TheModule, c)

\* The registry the last definition's body was lowered against.
RegistryDuring == FunctionAST_Install(last.prePrec, last.form.proto)

\* Every symbol of the registry that is not a built-in has its function.
Backed(prec, M) ==
  \A s \in DOMAIN prec \ DOMAIN StandardBinops : GetFunction(M, "binary" \o s)

\* C11: after every sequence of forms, and while a body (an operator's own
\* body included) is lowered, every symbol of the Operator Registry other
\* than the five built-ins has its function "binary" + symbol; so lowering
\* an application of a registered symbol never dies on a missing function.
C11_RegistryBacked ==
  /\ Backed(BinopPrecedence, TheModule)
  /\ BodyLowered => Backed(RegistryDuring, ModuleDuring)
  /\ ( /\ BodyLowered
       /\ last.form.body.kind = "binary"
       /\ last.form.body.op \in DOMAIN RegistryDuring )
     => fatal = "no"

\* The definition of binary @ applied @ in its own body and was lowered.
C11_Witness ==
  /\ last.ok
  /\ last.form = Function(BinaryProto("@", <<"a", "b">>, 5), Binary("@", Var("a"), Var("b")))
  /\ "@" \in DOMAIN BinopPrecedence
  /\ \E b \in DOMAIN last.blocks : \E i \in DOMAIN last.blocks[b] :
       last.blocks[b][i].op = "call" /\ last.blocks[b][i].callee = "binary@"

(***************************************************************************)
(* Failure propagation: definitions of a function of two parameters whose  *)
(* body is one construct with several children.  A child is either the     *)
(* unbound variable x, whose lowering fails, or a sum that tells its       *)
(* position and whose lowering emits a load and an add.                    *)
(***************************************************************************)
Bad == Var("x")

Good(j) == Binary("+", Var("a"), Num(j))

Child(j) == {Bad, Good(j)}

LowerExprs(self) ==
  {Binary("+", c1, c2) : c1 \in Child(1), c2 \in Child(2)}
    \cup {Call(self, <<c1, c2>>) : c1 \in Child(1), c2 \in Child(2)}
    \cup {IfExpr(c1, c2, c3) : c1 \in Child(1), c2 \in Child(2), c3 \in Child(3)}
    \cup UNION {{ForExpr("i", c1, c4, c3, c2) : c1 \in Child(1), c2 \in Child(2)} :
                  c3 \in Child(3), c4 \in Child(4)}
    \cup {VarExpr(<<Pair("c", c1), Pair("d", c2)>>, c3) : c1 \in Child(1), c2 \in Child(2), c3 \in Child(3)}

DefineLowered ==
  /\ ScopeReady
  /\ \E e \in LowerExprs(ScopeFnNames[nforms + 1]) :
       HandleDefinition(Function(Proto(ScopeFnNames[nforms + 1], <<"a", "b">>), e))

\* Lowering alone: definitions over the two families above.
NextScope == DefineScoped \/ DefineLowered

SpecScope == Init /\ [][NextScope]_vars

\* The children of a construct, in the order the code lowers them.
Children(e) ==
  CASE e.kind = "binary" -> <<e.lhs, e.rhs>>
    [] e.kind = "call" -> e.args
    [] e.kind = "if" -> <<e.cond, e.then, e.else>>
    [] e.kind = "for" -> <<e.start, e.body, e.step, e.end>>
    [] e.kind = "varin" -> [k \in 1..Len(e.names) |-> e.names[k].init] \o <<e.body>>
    [] OTHER -> <<>>

Occurrences(seq, x) == Cardinality({k \in DOMAIN seq : seq[k] = x})

\* Once a child of the construct has failed, no later child is lowered:
\* the failing variable is lowered once and no child after it at all.
ShortCircuits(e, lowered) ==
  \A i \in DOMAIN Children(e) :
    (Children(e)[i] = Bad /\ \A h \in 1..(i - 1) : Children(e)[h] # Bad) =>
      /\ Occurrences(lowered, Bad) = 1
      /\ \A j \in (i + 1)..Len(Children(e)) : Occurrences(lowered, Good(j)) = 0

\* C5: in every construct with several children, once the lowering of one
\* child has failed no later sibling is lowered.
C5_ShortCircuit == BodyLowered => ShortCircuits(last.form.body, last.lowered)

\* What does hold: every construct but the binary application stops at the
\* first failing child.
ShortCircuitExceptBinary ==
  (BodyLowered /\ last.form.body.kind # "binary") => ShortCircuits(last.form.body, last.lowered)

(***************************************************************************)
(* The execution engine: a finished function is run one instruction at a   *)
(* time.  A frame is [fn, bb, pc, prev, regs, mem, args, dest]: the         *)
(* function, the block and the position in it, the block control came from  *)
(* (for phi), the values of the instructions executed, the contents of the  *)
(* frame's allocas, the arguments, and the caller's call instruction.       *)
(* Comparison results are booleans; uitofp turns them into 0 and 1.         *)
(***************************************************************************)
NewFrame(fn, args, dest) ==
  [fn |-> fn, bb |-> EntryBB, pc |-> 1, prev |-> 0, regs |-> EmptyMap, mem |-> EmptyMap,
   args |-> args, dest |-> dest]

Eval(fr, v) ==
  CASE v.k = "const" -> v.n
    [] v.k = "reg" -> fr.regs[v.n]
    [] v.k = "arg" -> fr.args[v.n]

Top == jit.stack[Len(jit.stack)]

CurrentIns == TheModule[Top.fn].blocks[Top.bb][Top.pc]

SetTop(fr) == [jit EXCEPT !.stack[Len(jit.stack)] = fr, !.steps = @ + 1]

Define1(fr, id, v) == [fr EXCEPT !.regs = MapSet(fr.regs, id, v), !.pc = @ + 1]

Jump(fr, bb) == [fr EXCEPT !.prev = fr.bb, !.bb = bb, !.pc = 1]

PhiValue(fr, ins) == Eval(fr, ins.ops[CHOOSE k \in DOMAIN ins.bbs : ins.bbs[k] = fr.prev])

\* The functions the host process provides to the engine.
HostFunctions == {"putchard"}

Runnable(name) == name \in DOMAIN TheModule /\ ~FunctionEmpty(TheModule[name])

\* The engine is asked to run a finished function.
Invoke(name, args) ==
  /\ Ready
  /\ Runnable(name)
  /\ TheModule[name].nargs = Len(args)
  /\ jit' = [stack |-> <<NewFrame(name, args, 0)>>, steps |-> 0, result |-> NullV, fn |-> name,
             args |-> args, out0 |-> Len(out)]
  /\ nforms' = nforms + 1
  /\ UNCHANGED <<TheModule, BinopPrecedence, NamedValues, fatal, last, out>>

ExecCall(fr, ins) ==
  LET argv == [k \in DOMAIN ins.ops |-> Eval(fr, ins.ops[k])]
  IN IF Runnable(ins.callee)
     THEN /\ jit' = [jit EXCEPT !.stack = Append(@, NewFrame(ins.callee, argv, ins.id)),
                                !.steps = @ + 1]
          /\ UNCHANGED <<fatal, out>>
     ELSE IF ins.callee \in HostFunctions /\ ins.callee \in DOMAIN TheModule
     THEN /\ jit' = SetTop(Define1(fr, ins.id, 0))
          /\ out' = Append(out, argv[1])
          /\ UNCHANGED fatal
     ELSE /\ fatal' = "engine: function not found"
          /\ UNCHANGED <<jit, out>>

ExecRet(fr, ins) ==
  LET v == Eval(fr, ins.ops[1])
      n == Len(jit.stack)
  IN /\ IF n = 1
        THEN jit' = [jit EXCEPT !.stack = <<>>, !.steps = @ + 1, !.result = ConstV(v)]
        ELSE jit' = [jit EXCEPT !.stack = [k \in 1..(n - 1) |->
                                             IF k = n - 1 THEN Define1(jit.stack[k], fr.dest, v)
                                             ELSE jit.stack[k]],
                                !.steps = @ + 1]
     /\ UNCHANGED <<fatal, out>>

ExecPlain(fr, ins) ==
  /\ jit' = SetTop(
       CASE ins.op = "alloca" -> [fr EXCEPT !.pc = @ + 1]
         [] ins.op = "store" -> [fr EXCEPT !.mem = MapSet(fr.mem, ins.ops[2].n, Eval(fr, ins.ops[1])),
                                           !.pc = @ + 1]
         [] ins.op = "load" -> Define1(fr, ins.id, fr.mem[ins.ops[1].n])
         [] ins.op = "fadd" -> Define1(fr, ins.id, Eval(fr, ins.ops[1]) + Eval(fr, ins.ops[2]))
         [] ins.op = "fsub" -> Define1(fr, ins.id, Eval(fr, ins.ops[1]) - Eval(fr, ins.ops[2]))
         [] ins.op = "fmul" -> Define1(fr, ins.id, Eval(fr, ins.ops[1]) * Eval(fr, ins.ops[2]))
         [] ins.op = "fcmp_ult" -> Define1(fr, ins.id, Eval(fr, ins.ops[1]) < Eval(fr, ins.ops[2]))
         [] ins.op = "fcmp_one" -> Define1(fr, ins.id, Eval(fr, ins.ops[1]) # Eval(fr, ins.ops[2]))
         [] ins.op = "uitofp" -> Define1(fr, ins.id, IF Eval(fr, ins.ops[1]) THEN 1 ELSE 0)
         [] ins.op = "phi" -> Define1(fr, ins.id, PhiValue(fr, ins))
         [] ins.op = "br" -> Jump(fr, ins.bbs[1])
         [] ins.op = "condbr" -> Jump(fr, IF Eval(fr, ins.ops[1]) THEN ins.bbs[1] ELSE ins.bbs[2]))
  /\ UNCHANGED <<fatal, out>>

\* The engine executes the next instruction of the running function.
ExecStep ==
  /\ fatal = "no"
  /\ jit.stack # <<>>
  /\ jit.steps < MaxSteps
  /\ CASE CurrentIns.op = "call" -> ExecCall(Top, CurrentIns)
       [] CurrentIns.op = "ret" -> ExecRet(Top, CurrentIns)
       [] OTHER -> ExecPlain(Top, CurrentIns)
  /\ UNCHANGED <<TheModule, BinopPrecedence, NamedValues, nforms, last>>

(***************************************************************************)
(* Counted loops that write their loop variable with putchard:             *)
(*   extern putchard(x);  def t() for i = s, i < e[, 1.0] in putchard(i)   *)
(***************************************************************************)
CountedLoop(s, e, step) ==
  ForExpr("i", Num(s), Binary("<", Var("i"), Num(e)), step, Call("putchard", <<Var("i")>>))

LoopDefinitions ==
  {Function(Proto("t", <<>>), CountedLoop(s, e, step)) :
     s \in 0..MaxLoopEnd, e \in 0..MaxLoopEnd, step \in {NoExpr, Num(1)}}

DeclarePutchard == HandleExtern(Proto("putchard", <<"x">>))

DefineLoop == \E Fn \in LoopDefinitions : HandleDefinition(Fn)

RunLoop == Invoke("t", <<>>)

NextExec == DeclarePutchard \/ DefineLoop \/ RunLoop \/ ExecStep

SpecExec == Init /\ [][NextExec]_vars

\* What putchard has written since the engine was last asked to run.
Written == SubSeq(out, jit.out0 + 1, Len(out))

\* The sequence lo, lo + 1, ..., hi.
FromTo(lo, hi) == [k \in 1..(hi - lo + 1) |-> lo + k - 1]

\* The function t, defined by the last definition as a counted loop, has
\* been run to its return.
LoopRun ==
  /\ jit.fn = "t" /\ jit.stack = <<>> /\ jit.result # NullV
  /\ last.kind = "def" /\ last.ok /\ LastName = "t"
  /\ last.form.body.kind = "for"

LoopStart == last.form.body.start.val

LoopEnd == last.form.body.end.rhs.val

\* C3 as claimed: for s < e the loop for i = s, i < e, 1.0 runs its body
\* e - s times, with i = s, ..., e - 1, and yields 0.0.
C3_BodyRunsEndMinusStartTimes ==
  (LoopRun /\ LoopStart < LoopEnd) =>
    Written = FromTo(LoopStart, LoopEnd - 1) /\ jit.result = ConstV(0)

\* C3 as amended: for s < e the loop runs its body e - s + 1 times, with
\* i = s, ..., e (the end condition is computed before the increment and
\* tested after the body), and yields 0.0.
C3_BodyRunsOnceMore ==
  (LoopRun /\ LoopStart < LoopEnd) =>
    Written = FromTo(LoopStart, LoopEnd) /\ jit.result = ConstV(0)

\* for i = 1, i < 4, 1.0 in putchard(i) has been run to its return.
C3_Witness ==
  /\ LoopRun /\ LoopStart = 1 /\ LoopEnd = 4 /\ last.form.body.step = Num(1)
  /\ Written = <<1, 2, 3, 4>>

(***************************************************************************)
(* Conditionals whose branches are a number, a conditional or a loop:      *)
(*   def t(a) if a then T else E,  run with a = 0, 1, 3                    *)
(***************************************************************************)
IfBranches ==
  {Num(5),
   IfExpr(Binary("<", Var("a"), Num(2)), Num(6), Num(7)),
   ForExpr("i", Num(0), Binary("<", Var("i"), Num(1)), NoExpr, Var("i"))}

IfDefinitions ==
  {Function(Proto("t", <<"a">>), IfExpr(Var("a"), T, E)) : T \in IfBranches, E \in IfBranches}

IfArgs == {0, 1, 3}

DefineIf == \E Fn \in IfDefinitions : HandleDefinition(Fn)

RunIf == \E x \in IfArgs : Invoke("t", <<x>>)

NextIf == DefineIf \/ RunIf \/ ExecStep

SpecIf == Init /\ [][NextIf]_vars

\* The value of an expression of the family when the parameter a is x: a
\* conditional has the value of its then branch when the condition is not
\* 0 and of its else branch when it is 0; a loop has the value 0.
RECURSIVE ValueOf(_, _)
ValueOf(e, x) ==
  CASE e.kind = "num" -> e.val
    [] e.kind = "var" -> x
    [] e.kind = "binary" -> IF ValueOf(e.lhs, x) < ValueOf(e.rhs, x) THEN 1 ELSE 0
    [] e.kind = "if" -> IF ValueOf(e.cond, x) # 0 THEN ValueOf(e.then, x) ELSE ValueOf(e.else, x)
    [] e.kind = "for" -> 0

\* The function t, defined by the last definition as a conditional, has
\* been run to its return.
IfRun ==
  /\ jit.fn = "t" /\ jit.stack = <<>> /\ jit.result # NullV
  /\ last.kind = "def" /\ last.ok /\ LastName = "t"
  /\ last.form.body.kind = "if"

\* Every incoming block of every phi ends with the branch to the phi's block.
PhiEdgesArePredecessors(blocks) ==
  \A b \in DOMAIN blocks : \A i \in DOMAIN blocks[b] :
    blocks[b][i].op = "phi" =>
      \A k \in DOMAIN blocks[b][i].bbs :
        LET from == blocks[blocks[b][i].bbs[k]]
        IN /\ from # <<>>
           /\ from[Len(from)].op = "br"
           /\ from[Len(from)].bbs = <<b>>

\* C13: the two incoming edges of the merge come from the blocks in which
\* the lowering of the branches ended, and running the emitted blocks
\* yields the then-value when the condition is not 0 and the else-value
\* when it is 0, branches that create blocks of their own included.
C13_BranchValue ==
  /\ (last.kind = "def" /\ last.ok) => PhiEdgesArePredecessors(last.blocks)
  /\ IfRun => jit.result = ConstV(ValueOf(last.form.body, jit.args[1]))

\* if a then (if a < 2 then 6 else 7) else (for ...) was run with a = 3:
\* the then branch ended in the inner merge block and the result is 7.
C13_Witness ==
  /\ IfRun
  /\ last.form.body.then.kind = "if" /\ last.form.body.else.kind = "for"
  /\ jit.args = <<3>>
  /\ jit.result = ConstV(7)

(***************************************************************************)
(* Parameters as cells: a callee of one parameter that assigns to it and   *)
(* reads it back, and a caller t(a) that calls it and then reads its own a.*)
(***************************************************************************)
CellBodies ==
  [c \in {"p", "q", "r"} |->
     CASE c = "p" -> Binary("+", Binary("=", Var("a"), Binary("+", Var("a"), Num(1))), Var("a"))
       [] c = "q" -> Binary("+", Binary("=", Var("a"), Num(7)), Var("a"))
       [] c = "r" -> Var("a")]

CellCallers(c) ==
  {Binary("+", Call(c, <<Var("a")>>), Var("a")),
   Binary("+", Binary("+", Call(c, <<Var("a")>>), Call(c, <<Var("a")>>)), Var("a")),
   Binary("+", Binary("=", Var("a"), Num(9)), Binary("+", Call(c, <<Var("a")>>), Var("a")))}

CellArgs == {0, 1, 2}

DefineCell == \E c \in DOMAIN CellBodies : HandleDefinition(Function(Proto(c, <<"a">>), CellBodies[c]))

DefineCaller ==
  \E c \in DOMAIN CellBodies : \E b \in CellCallers(c) : HandleDefinition(Function(Proto("t", <<"a">>), b))

RunCell == \E x \in CellArgs : Invoke("t", <<x>>)

NextCell == DefineCell \/ DefineCaller \/ RunCell \/ ExecStep

SpecCell == Init /\ [][NextCell]_vars

\* What an expression of the family yields, and what it leaves in the
\* parameter a, in an invocation whose a holds x: an assignment changes
\* the a of this invocation; a call seeds the callee's a with the argument
\* and leaves the a of the caller alone.
RECURSIVE CellValue(_, _)
CellValue(e, x) ==
  CASE e.kind = "num" -> [v |-> e.val, a |-> x]
    [] e.kind = "var" -> [v |-> x, a |-> x]
    [] e.kind = "call" ->
         LET arg == CellValue(e.args[1], x)
         IN [v |-> CellValue(CellBodies[e.callee], arg.v).v, a |-> arg.a]
    [] e.kind = "binary" /\ e.op = "=" ->
         LET r == CellValue(e.rhs, x) IN [v |-> r.v, a |-> r.v]
    [] e.kind = "binary" /\ e.op = "+" ->
         LET l == CellValue(e.lhs, x)
             r == CellValue(e.rhs, l.a)
         IN [v |-> l.v + r.v, a |-> r.a]
    [] e.kind = "binary" /\ e.op = "<" ->
         LET l == CellValue(e.lhs, x)
             r == CellValue(e.rhs, l.a)
         IN [v |-> IF l.v < r.v THEN 1 ELSE 0, a |-> r.a]

\* The caller t, defined by the last definition, has been run to its return.
CellRun ==
  /\ jit.fn = "t" /\ jit.stack = <<>> /\ jit.result # NullV
  /\ last.kind = "def" /\ last.ok /\ LastName = "t"

\* C14: a definition that assigns to its parameter is lowered, and running
\* it gives every invocation its own cell for the parameter: seeded with
\* the argument, changed by the assignment for the later reads of the same
\* invocation, and unchanged by what any other invocation does.
C14_ParametersArePrivateCells ==
  /\ (last.kind = "def" /\ LastName \in DOMAIN CellBodies /\ last.stage # "proto") => last.ok
  /\ CellRun => jit.result = ConstV(CellValue(last.form.body, jit.args[1]).v)

\* t(a) = (p(a) + p(a)) + a was run with a = 1, p(a) = (a = a + 1) + a:
\* both calls returned 4 and t still read 1.
C14_Witness ==
  /\ CellRun
  /\ last.form.body = Binary("+", Binary("+", Call("p", <<Var("a")>>), Call("p", <<Var("a")>>)), Var("a"))
  /\ jit.args = <<1>>
  /\ jit.result = ConstV(9)

(***************************************************************************)
(* Operator definitions: binary @ with precedence 5 or 9, with a body that *)
(* lowers, fails, applies @ itself or dies on the unknown operator %, and  *)
(* a declaration of binary@ with one parameter.                            *)
(***************************************************************************)
OpPrecedences == {5, 9}

OpBodies == {Num(1), Var("x"), Binary("@", Var("a"), Var("b")), Binary("%", Num(1), Num(2))}

OpDefinitions ==
  {Function(BinaryProto("@", <<"a", "b">>, pr), b) : pr \in OpPrecedences, b \in OpBodies}

DefineOp == \E Fn \in OpDefinitions : HandleDefinition(Fn)

DeclareOp == HandleExtern(Proto("binary@", <<"a">>))

NextOps == DefineOp \/ DeclareOp

SpecOps == Init /\ [][NextOps]_vars

LastIsOperator == last.kind = "def" /\ last.form.proto.isBinaryOp

\* C15: the operator is installed only after the prototype was accepted
\* and before the body is lowered: a definition the prototype rejects
\* leaves the Operator Registry as it was; when the process dies in the
\* body, and when the definition succeeds, the registry is the one before
\* the form with the symbol set to the new precedence.
C15_InstallAfterPrototype ==
  /\ (LastIsOperator /\ last.stage = "proto") => BinopPrecedence = last.prePrec
  /\ (LastIsOperator /\ last.stage \in {"fatal", "done"}) =>
       BinopPrecedence = MapSet(last.prePrec, last.form.proto.op, last.form.proto.prec)

\* binary @ was defined with precedence 5; a second definition with
\* precedence 9 was rejected and @ still has precedence 5.
C15_Witness ==
  /\ LastIsOperator /\ last.stage = "proto" /\ last.form.proto.prec = 9
  /\ last.errs = <<"redefinition of function">>
  /\ BinopPrecedence["@"] = 5

(***************************************************************************)
(* Assignments: def f(a) L = R and def f(a b) L = R, where L is a bound    *)
(* variable, an unbound one, a number or a sum, and R lowers or fails.     *)
(***************************************************************************)
AssignTargets == {Var("a"), Var("x"), Num(1), Binary("+", Var("a"), Num(1))}

AssignValues == {Num(2), Var("y"), Binary("*", Var("b"), Num(3))}

AssignParams == {<<"a">>, <<"a", "b">>}

DefineAssign ==
  /\ nforms < Len(ScopeFnNames)
  /\ \E ps \in AssignParams, L \in AssignTargets, R \in AssignValues :
       HandleDefinition(Function(Proto(ScopeFnNames[nforms + 1], ps), Binary("=", L, R)))

NextAssign == DefineAssign

SpecAssign == Init /\ [][NextAssign]_vars

\* The instructions of the function, block after block.
RECURSIVE Flatten(_, _)
Flatten(blocks, b) == IF b > Len(blocks) THEN <<>> ELSE blocks[b] \o Flatten(blocks, b + 1)

Stores(blocks) == SelectSeq(Flatten(blocks, 1), LAMBDA ins : ins.op = "store")

\* The last form was a definition whose body, an assignment, was lowered.
AssignLowered == BodyLowered /\ last.form.body.kind = "binary" /\ last.form.body.op = "="

NumParams == Len(last.form.proto.args)

\* C16: the left operand of = is never lowered; a left operand that is not
\* a variable fails with "destination of '=' must be a variable" before
\* the right operand is lowered; otherwise the right operand is lowered,
\* then the target is looked up ("Unknown variable name" when absent), and
\* one store of the right operand's value into the target's alloca is
\* emitted only when all of this passed; that value is the result.
C16_AssignmentLowering ==
  AssignLowered =>
    LET L == last.form.body.lhs
        R == last.form.body.rhs
        st == Stores(last.blocks)
        code == Flatten(last.blocks, 1)
    IN /\ Occurrences(last.lowered, L) = 0
       /\ IF L.kind # "var"
          THEN /\ ~last.ok
               /\ last.errs = <<"destination of '=' must be a variable">>
               /\ last.lowered = <<last.form.body>>
               /\ Len(st) = NumParams
          ELSE /\ Len(last.lowered) >= 2 /\ last.lowered[2] = R
               /\ last.ok <=> (last.errs = <<>>)
               /\ ~last.ok => last.errs = <<"Unknown variable name">> /\ Len(st) = NumParams
               /\ (~last.ok /\ R = Num(2)) =>
                     last.refs = <<[name |-> L.name, found |-> FALSE, bound |-> {last.form.proto.args[j] : j \in 1..NumParams}]>>
               /\ last.ok =>
                     /\ Len(st) = NumParams + 1
                     /\ st[Len(st)].ops[2] = RegV(Resolve(NamedValues, L.name))
                     /\ code[Len(code)].op = "ret"
                     /\ code[Len(code)].ops = <<st[Len(st)].ops[1]>>
                     /\ code[Len(code) - 1] = st[Len(st)]

\* def f(a b) a = b * 3 was lowered: the product is stored into a's alloca
\* and returned.
C16_Witness ==
  /\ AssignLowered /\ last.ok
  /\ last.form.body = Binary("=", Var("a"), Binary("*", Var("b"), Num(3)))
  /\ Len(Stores(last.blocks)) = 3

(***************************************************************************)
(* Counted loops whose body or step assigns the loop variable:             *)
(*   def t() for i = s, i < e, STEP in putchard(ARG)                       *)
(* with ARG i or i = i + 1 and STEP absent, 1, 2 or i = i + 1.             *)
(***************************************************************************)
Bump == Binary("=", Var("i"), Binary("+", Var("i"), Num(1)))

OrderLoops ==
  {ForExpr("i", Num(s), Binary("<", Var("i"), Num(e)), step, Call("putchard", <<arg>>)) :
     s \in 0..1, e \in 0..MaxLoopEnd, step \in {NoExpr, Num(1), Num(2), Bump}, arg \in {Var("i"), Bump}}

DefineOrder == \E b \in OrderLoops : HandleDefinition(Function(Proto("t", <<>>), b))

NextOrder == DeclarePutchard \/ DefineOrder \/ RunLoop \/ ExecStep

SpecOrder == Init /\ [][NextOrder]_vars

\* What the loop writes when an iteration starts with the variable at i
\* (at most k iterations): the body runs; then the step and then the end
\* condition are evaluated; then the variable, as the body and the step
\* left it, is reloaded and the step added to it; then the branch is taken.
RECURSIVE IterationOrder(_, _, _)
IterationOrder(loop, i, k) ==
  IF k = 0 THEN <<>>
  ELSE LET arg == CellValue(loop.body.args[1], i)
           st == IF loop.step = NoExpr THEN [v |-> 1, a |-> arg.a] ELSE CellValue(loop.step, arg.a)
           en == CellValue(loop.end, st.a)
       IN <<arg.v>> \o (IF en.v # 0 THEN IterationOrder(loop, en.a + st.v, k - 1) ELSE <<>>)

IsPrefix(p, q) == Len(p) <= Len(q) /\ SubSeq(q, 1, Len(p)) = p

\* The function t, defined by the last definition as a counted loop, is
\* being run or has been run.
LoopStarted ==
  /\ jit.fn = "t"
  /\ last.kind = "def" /\ last.ok /\ LastName = "t"
  /\ last.form.body.kind = "for"

\* C18: in each iteration the body runs first, then the step and the end
\* condition are evaluated, then the loop variable is reloaded (so what
\* the body assigned to it is what the step is added to), the sum is
\* stored, and then the branch on the end condition is taken.
C18_IterationOrder ==
  /\ LoopStarted => IsPrefix(Written, IterationOrder(last.form.body, LoopStart, MaxSteps))
  /\ LoopRun => /\ Written = IterationOrder(last.form.body, LoopStart, MaxSteps)
                /\ jit.result = ConstV(0)

\* for i = 0, i < 4 in putchard(i = i + 1) has been run: the body's
\* assignment is what the step was added to.
C18_Witness ==
  /\ LoopRun
  /\ last.form.body.body = Call("putchard", <<Bump>>)
  /\ last.form.body.step = NoExpr
  /\ LoopStart = 0 /\ LoopEnd = 4
  /\ Written = <<1, 3, 5>>

=============================================================================
